---- MODULE Spec2Model ----
(***************************************************************************)
(* Preference companion: the file-backed preference list                   *)
(* (core/preference_manager.py), the elicitation bot that feeds it         *)
(* (core/elicitation_bot.py), the LLM wrapper (core/llm_services.py) and   *)
(* the Streamlit handlers that drive them (app.py).                        *)
(*                                                                         *)
(* Strings are sequences of characters.  uuid4 strings are modelled by     *)
(* natural numbers drawn from a counter (a fresh value on every call),     *)
(* isoformat timestamps by the value of a clock.                           *)
(***************************************************************************)
EXTENDS Integers, Sequences, FiniteSets, TLC

(***************************************************************************)
(* Bounds of the model.                                                    *)
(***************************************************************************)
\* uuid4 values add_preference may draw after start-up (SpecPM)
MaxIds == 3
\* preferences the bot may save after start-up (Spec)
MaxSaves == 2
\* entries a user's conversation history may reach (Spec)
MaxHistory == 2
\* process_message calls of a conversation (SpecChat)
MaxTurns == 7

(***************************************************************************)
(* Strings.                                                                *)
(***************************************************************************)
\* str.strip(): leading and trailing whitespace removed
RECURSIVE LStrip(_)
LStrip(s) == IF s # <<>> /\ Head(s) = " " THEN LStrip(Tail(s)) ELSE s

RECURSIVE RStrip(_)
RStrip(s) ==
    IF s # <<>> /\ s[Len(s)] = " " THEN RStrip(SubSeq(s, 1, Len(s) - 1)) ELSE s

Strip(s) == RStrip(LStrip(s))

(***************************************************************************)
(* Values held in a preference record.                                     *)
(*   A record of the manager's list is the dict of add_preference:         *)
(*       {"text": ..., "source": ..., "id": ...}                           *)
(*   Its text is whatever the caller passed: a string, or the dict built   *)
(*   by ElicitationBot.save_preference                                     *)
(*       {"id": ..., "text": ..., "source": ..., "timestamp": ...}.        *)
(*   Both kinds of text are carried by one record shape so that they can   *)
(*   be compared: kind tells which one it is.                              *)
(***************************************************************************)
StrValue(chars) ==
    [kind |-> "str", id |-> 0, text |-> chars, source |-> "", timestamp |-> 0]

DictValue(id, chars, source, timestamp) ==
    [kind |-> "dict", id |-> id, text |-> chars, source |-> source,
     timestamp |-> timestamp]

(***************************************************************************)
(* The JSON document.  The file is a sequence of tokens (whitespace and    *)
(* indentation are not tokens).  A token is a pair <<kind, payload>>: a    *)
(* punctuation mark, or a string literal that carries a key or tag         *)
(* ("name"), a text ("text") or a uuid/timestamp ("num").                  *)
(***************************************************************************)
P(s) == <<"punct", s>>
K(s) == <<"name", s>>
S(chars) == <<"text", chars>>
N(n) == <<"num", n>>

\* json.dump of a text value: a string literal, or the nested object
DumpValue(v) ==
    IF v.kind = "str"
    THEN <<S(v.text)>>
    ELSE <<P("{"), K("id"), P(":"), N(v.id), P(","),
           K("text"), P(":"), S(v.text), P(","),
           K("source"), P(":"), K(v.source), P(","),
           K("timestamp"), P(":"), N(v.timestamp), P("}")>>

\* json.dump of one record of the list, keys in the order add_preference sets them
DumpRecord(r) ==
    <<P("{"), K("text"), P(":")>> \o DumpValue(r.text) \o
    <<P(","), K("source"), P(":"), K(r.source), P(","),
      K("id"), P(":"), N(r.id), P("}")>>

RECURSIVE DumpItems(_)
DumpItems(l) ==
    IF l = <<>> THEN <<>>
    ELSE IF Len(l) = 1 THEN DumpRecord(l[1])
    ELSE DumpRecord(l[1]) \o <<P(",")>> \o DumpItems(Tail(l))

\* json.dump(self.preferences, f, indent=2)
JsonDump(l) == <<P("[")>> \o DumpItems(l) \o <<P("]")>>

\* The token at position i, or an end-of-input mark
At(toks, i) == IF i >= 1 /\ i <= Len(toks) THEN toks[i] ELSE P("<eof>")

\* json.loads on a text value starting at position i:
\* [ok, val, next] with next the position after the value
ParseValue(toks, i) ==
    IF At(toks, i)[1] = "text"
    THEN [ok |-> TRUE, val |-> StrValue(At(toks, i)[2]), next |-> i + 1]
    ELSE IF /\ At(toks, i) = P("{")
            /\ At(toks, i + 1) = K("id") /\ At(toks, i + 2) = P(":")
            /\ At(toks, i + 3)[1] = "num" /\ At(toks, i + 4) = P(",")
            /\ At(toks, i + 5) = K("text") /\ At(toks, i + 6) = P(":")
            /\ At(toks, i + 7)[1] = "text" /\ At(toks, i + 8) = P(",")
            /\ At(toks, i + 9) = K("source") /\ At(toks, i + 10) = P(":")
            /\ At(toks, i + 11)[1] = "name" /\ At(toks, i + 12) = P(",")
            /\ At(toks, i + 13) = K("timestamp") /\ At(toks, i + 14) = P(":")
            /\ At(toks, i + 15)[1] = "num" /\ At(toks, i + 16) = P("}")
    THEN [ok |-> TRUE,
          val |-> DictValue(At(toks, i + 3)[2], At(toks, i + 7)[2],
                            At(toks, i + 11)[2], At(toks, i + 15)[2]),
          next |-> i + 17]
    ELSE [ok |-> FALSE, val |-> StrValue(<<>>), next |-> i]

\* json.loads on one record of the list starting at position i
ParseRecord(toks, i) ==
    LET v == ParseValue(toks, i + 3)
        j == v.next
    IN  IF /\ At(toks, i) = P("{")
           /\ At(toks, i + 1) = K("text") /\ At(toks, i + 2) = P(":")
           /\ v.ok
           /\ At(toks, j) = P(",")
           /\ At(toks, j + 1) = K("source") /\ At(toks, j + 2) = P(":")
           /\ At(toks, j + 3)[1] = "name" /\ At(toks, j + 4) = P(",")
           /\ At(toks, j + 5) = K("id") /\ At(toks, j + 6) = P(":")
           /\ At(toks, j + 7)[1] = "num" /\ At(toks, j + 8) = P("}")
        THEN [ok |-> TRUE,
              val |-> [text |-> v.val, source |-> At(toks, j + 3)[2],
                       id |-> At(toks, j + 7)[2]],
              next |-> j + 9]
        ELSE [ok |-> FALSE,
              val |-> [text |-> StrValue(<<>>), source |-> "", id |-> 0],
              next |-> i]

\* The records of a list after its first one: ("," record)* "]" and nothing more
RECURSIVE ParseItems(_, _, _)
ParseItems(toks, i, acc) ==
    LET r == ParseRecord(toks, i)
    IN  IF ~r.ok THEN [ok |-> FALSE, list |-> <<>>]
        ELSE IF At(toks, r.next) = P(",")
             THEN ParseItems(toks, r.next + 1, Append(acc, r.val))
        ELSE IF At(toks, r.next) = P("]") /\ r.next = Len(toks)
             THEN [ok |-> TRUE, list |-> Append(acc, r.val)]
        ELSE [ok |-> FALSE, list |-> <<>>]

\* json.loads(data): the list of records, or ok = FALSE for json.JSONDecodeError.
\* The documents read here are lists of preference records with their keys in
\* the order json.dump wrote them; anything else is a decode error.
JsonLoads(toks) ==
    IF At(toks, 1) # P("[") THEN [ok |-> FALSE, list |-> <<>>]
    ELSE IF At(toks, 2) = P("]") /\ Len(toks) = 2 THEN [ok |-> TRUE, list |-> <<>>]
    ELSE ParseItems(toks, 2, <<>>)

(***************************************************************************)
(* State.                                                                  *)
(***************************************************************************)
VARIABLES
    file,           \* data/preferences.json: [exists, data]
    prefs,          \* self.preferences of each PreferenceManager object
    nextId,         \* the next value uuid.uuid4() returns
    clock,          \* the next value datetime.now() returns
    conversations,  \* ElicitationBot.conversations: user_id -> history
    last            \* the call that made the last step, and what it returned

vars == <<file, prefs, nextId, clock, conversations, last>>

\* The two PreferenceManager objects of a session: st.session_state.preference_manager
\* (app.py:29) and the one ElicitationBot() builds for itself (elicitation_bot.py:111)
Managers == {"session", "bot"}

(***************************************************************************)
(* core/preference_manager.py                                              *)
(***************************************************************************)
EmptyObject == <<P("{"), P("}")>>

\* PreferenceManager._load_preferences
_load_preferences(f) ==
    IF ~f.exists THEN <<>>
    ELSE IF f.data = <<>> \/ f.data = EmptyObject THEN <<>>
    ELSE IF JsonLoads(f.data).ok THEN JsonLoads(f.data).list
    ELSE <<>>

\* The exceptions _load_preferences catches
LoadExcept == {"JSONDecodeError", "FileNotFoundError"}

\* The exception the try block of _load_preferences meets on file f, "" for
\* none: json.loads raises JSONDecodeError on a text that is not a JSON document
LoadException(f) ==
    IF f.exists /\ f.data # <<>> /\ f.data # EmptyObject /\ ~JsonLoads(f.data).ok
    THEN "JSONDecodeError"
    ELSE ""

\* _load_preferences without its except clause
_load_preferences_raises_uncaught(f) == LoadException(f) # ""

\* PreferenceManager._load_preferences: whether an exception leaves the call
_load_preferences_raises(f) == LoadException(f) \notin LoadExcept \cup {""}

\* PreferenceManager._save_preferences: the file after the list l is written
_save_preferences(l) == [exists |-> TRUE, data |-> JsonDump(l)]

\* add_preference with the record put first (insert(0, new_pref))
add_preference_insert_first(l, preference_text, source, id) ==
    <<[text |-> preference_text, source |-> source, id |-> id]>> \o l

\* add_preference with the id taken from the list's length, not from uuid4
add_preference_length_id(l, preference_text, source, id) ==
    Append(l, [text |-> preference_text, source |-> source, id |-> Len(l) + 1])

\* PreferenceManager.add_preference: the list after the call; id is the uuid4 drawn
add_preference(l, preference_text, source, id) ==
    Append(l, [text |-> preference_text, source |-> source, id |-> id])

\* PreferenceManager.get_preference_by_id: whether a record is found
get_preference_by_id(l, pref_id) == \E i \in 1..Len(l) : l[i].id = pref_id

\* delete_preference that moves the last record into the freed place
delete_preference_swap_last(l, pref_id) ==
    IF \E i \in 1..Len(l) : l[i].id = pref_id
    THEN LET i == CHOOSE k \in 1..Len(l) : l[k].id = pref_id
         IN  SubSeq([l EXCEPT ![i] = l[Len(l)]], 1, Len(l) - 1)
    ELSE l

\* PreferenceManager.delete_preference: the list after the call
delete_preference(l, pref_id) == SelectSeq(l, LAMBDA p : p.id # pref_id)

\* delete_preference with the comparison len(...) <= initial_length
delete_returns_always(l, pref_id) == Len(delete_preference(l, pref_id)) <= Len(l)

\* PreferenceManager.delete_preference: its return value
delete_returns(l, pref_id) == Len(delete_preference(l, pref_id)) < Len(l)

(***************************************************************************)
(* Inputs.                                                                 *)
(***************************************************************************)
Tea == <<"t", "e", "a">>
Hiking == <<"h", "i", "k", "i", "n", "g">>
Monday == <<"m", "o", "n", "d", "a", "y">>

\* The first uuid4 drawn after start-up: the start-up files hold ids 1..3
FirstId == 4
\* The first timestamp taken after start-up
FirstTime == 2

\* A record written by test_preferences.py, and one written by an earlier session
OldScriptRecord == [text |-> StrValue(Tea), source |-> "test_script", id |-> 1]
OldChatRecord ==
    [text |-> DictValue(2, Hiking, "pattern_detected", 1),
     source |-> "manual_chat", id |-> 3]

\* What data/preferences.json may hold when a session starts: nothing (missing),
\* an empty file, '{}', a truncated document, or a list the program wrote earlier
\* (its ids pairwise distinct, as uuid4 gives them)
InitFiles ==
    { [exists |-> FALSE, data |-> <<>>],
      [exists |-> TRUE, data |-> <<>>],
      [exists |-> TRUE, data |-> EmptyObject],
      [exists |-> TRUE, data |-> <<P("["), P("{")>>],
      _save_preferences(<<>>),
      _save_preferences(<<OldScriptRecord>>),
      _save_preferences(<<OldScriptRecord, OldChatRecord>>) }

None == [some |-> FALSE, text |-> <<>>]
Some(chars) == [some |-> TRUE, text |-> chars]

\* The record kept in `last` before any call.  before is the length of the
\* manager's list when the call began.
NoCall ==
    [op |-> "start", mgr |-> "bot", user |-> "", before |-> 0, id |-> 0, text |-> <<>>, source |-> "",
     ret |-> "None", raised |-> FALSE, msg |-> "", extract |-> "", pref |-> <<>>,
     chat |-> "", detected |-> None, response |-> "", request |-> <<>>]

\* PreferenceManager.__init__ for both objects (app.py:28-36): each loads the file
Init ==
    /\ file \in InitFiles
    /\ prefs = [m \in Managers |-> _load_preferences(file)]
    /\ nextId = FirstId
    /\ clock = FirstTime
    /\ conversations = [u \in {} |-> <<>>]
    /\ last = NoCall

\* uuid4 values are still available within the bound
IdsLeft(k) == nextId + k <= FirstId + MaxIds

(***************************************************************************)
(* A PreferenceManager used through its own interface: the bot's manager   *)
(* is the object under use, the session's slot receives a newly            *)
(* constructed manager on the same storage path.                           *)
(***************************************************************************)
\* The (preference_text, source) pairs add_preference is called with
ApiCalls == {<<StrValue(Tea), "manual_chat">>, <<StrValue(<<>>), "extracted">>}

\* add_preference with _save_preferences called before the append
AddPreference_save_first(m, preference_text, source) ==
    /\ IdsLeft(1)
    /\ prefs' = [prefs EXCEPT ![m] = add_preference(@, preference_text, source, nextId)]
    /\ file' = _save_preferences(prefs[m])
    /\ nextId' = nextId + 1
    /\ last' = [NoCall EXCEPT !.op = "add_preference", !.mgr = m,
                              !.before = Len(prefs[m]), !.id = nextId,
                              !.text = preference_text.text, !.source = source,
                              !.ret = "dict"]
    /\ UNCHANGED <<clock, conversations>>

\* add_preference(preference_text, source) on manager m
AddPreference(m, preference_text, source) ==
    /\ IdsLeft(1)
    /\ prefs' = [prefs EXCEPT ![m] = add_preference(@, preference_text, source, nextId)]
    /\ file' = _save_preferences(add_preference(prefs[m], preference_text, source, nextId))
    /\ nextId' = nextId + 1
    /\ last' = [NoCall EXCEPT !.op = "add_preference", !.mgr = m,
                              !.before = Len(prefs[m]), !.id = nextId,
                              !.text = preference_text.text, !.source = source,
                              !.ret = "dict"]
    /\ UNCHANGED <<clock, conversations>>

\* delete_preference without its call of _save_preferences
DeletePreference_no_save(m, pref_id) ==
    /\ prefs' = [prefs EXCEPT ![m] = delete_preference(@, pref_id)]
    /\ last' = [NoCall EXCEPT !.op = "delete_preference", !.mgr = m,
                              !.before = Len(prefs[m]), !.id = pref_id,
                              !.ret = IF delete_returns(prefs[m], pref_id)
                                      THEN "True" ELSE "False"]
    /\ UNCHANGED <<file, nextId, clock, conversations>>

\* delete_preference(pref_id) on manager m
DeletePreference(m, pref_id) ==
    /\ prefs' = [prefs EXCEPT ![m] = delete_preference(@, pref_id)]
    /\ file' = IF delete_returns(prefs[m], pref_id)
               THEN _save_preferences(prefs'[m]) ELSE file
    /\ last' = [NoCall EXCEPT !.op = "delete_preference", !.mgr = m,
                              !.before = Len(prefs[m]), !.id = pref_id,
                              !.ret = IF delete_returns(prefs[m], pref_id)
                                      THEN "True" ELSE "False"]
    /\ UNCHANGED <<nextId, clock, conversations>>

\* PreferenceManager(storage_path): a new object in slot m; no object is made
\* when _load_preferences raises
Construct(m) ==
    /\ prefs' = IF _load_preferences_raises(file) THEN prefs
                ELSE [prefs EXCEPT ![m] = _load_preferences(file)]
    /\ last' = [NoCall EXCEPT !.op = "__init__", !.mgr = m, !.before = Len(prefs[m]),
                              !.raised = _load_preferences_raises(file)]
    /\ UNCHANGED <<file, nextId, clock, conversations>>

ApiAdd == \E c \in ApiCalls : AddPreference("bot", c[1], c[2])
\* pref_id: any id drawn so far, or one no record has (nextId)
ApiDelete == \E i \in 1..nextId : DeletePreference("bot", i)
ApiConstruct == Construct("session")

NextPM == ApiAdd \/ ApiDelete \/ ApiConstruct

SpecPM == Init /\ [][NextPM]_vars

(***************************************************************************)
(* core/llm_services.py                                                    *)
(***************************************************************************)
\* What the chat-completions call may do: raise (any exception), answer with no
\* content, answer with a text that has no "PREFERENCE: " line, or answer with
\* a text that has the line "PREFERENCE: <pref>"
Completion(kind, pref) == [kind |-> kind, pref |-> pref]

NONE == <<"N", "O", "N", "E">>

\* The extraction call: it raises, answers without content, answers
\* "PREFERENCE: NONE", "PREFERENCE: tea" or "PREFERENCE: ab"
ExtractionCompletions ==
    { Completion("raise", <<>>), Completion("null", <<>>),
      Completion("marked", NONE), Completion("marked", Tea),
      Completion("marked", <<"a", "b">>) }

\* The chat call: it raises or answers with a text
ChatCompletions == {Completion("raise", <<>>), Completion("plain", <<>>)}

\* What a call gives its caller: a value, or an exception
Returned(value) == [raised |-> FALSE, value |-> value]
Raised == [raised |-> TRUE, value |-> "<exception>"]

\* generate_response without its try/except
generate_response_no_except(completion) ==
    CASE completion.kind = "raise" -> Raised
      [] completion.kind = "null" -> Returned("<None>")
      [] completion.kind = "plain" -> Returned("<content>")
      [] OTHER -> Returned("<content with PREFERENCE line>")

\* LLMService.generate_response: the content of the reply (None for a reply
\* without content); any exception of the call is caught and an error string
\* returned.  The error string carries no "PREFERENCE: " line.
generate_response(completion) ==
    CASE completion.kind = "raise" -> Returned("Error generating response: <exception>")
      [] completion.kind = "null" -> Returned("<None>")
      [] completion.kind = "plain" -> Returned("<content>")
      [] OTHER -> Returned("<content with PREFERENCE line>")

(***************************************************************************)
(* core/elicitation_bot.py                                                 *)
(***************************************************************************)
\* len(preference_patterns)
NumPatterns == 17
\* a captured group must be longer than this
MinGroupLen == 5
\* a saved preference has at least this many characters after strip()
MinPrefLen == 3
\* history entries sent with a chat request
HistoryWindow == 10

\* A user message: its name stands for its text, matches lists what
\* re.finditer yields for it, in text order: the pattern (1..NumPatterns, the
\* position in preference_patterns) and group(1) of each match
Match(pattern, group1) == [pattern |-> pattern, group1 |-> group1]

Messages ==
    { \* "hello"
      [name |-> "hello", matches |-> <<>>],
      \* "I hate monday. I love hiking."
      [name |-> "hate monday, love hiking",
       matches |-> <<Match(4, Monday), Match(1, Hiking)>>],
      \* "I like       a."
      [name |-> "like a",
       matches |-> <<Match(1, <<" ", " ", " ", " ", " ", " ", "a">>)>>],
      \* "I like tea."
      [name |-> "like tea", matches |-> <<Match(1, Tea)>>] }

\* The inner loop of _extract_preferences_with_pattern for one pattern
RECURSIVE MatchesOf(_, _)
MatchesOf(matches, pattern) ==
    IF matches = <<>> THEN <<>>
    ELSE IF Head(matches).pattern = pattern /\ Len(Head(matches).group1) > MinGroupLen
         THEN <<Strip(Head(matches).group1)>> \o MatchesOf(Tail(matches), pattern)
         ELSE MatchesOf(Tail(matches), pattern)

RECURSIVE PatternsFrom(_, _)
PatternsFrom(matches, pattern) ==
    IF pattern > NumPatterns THEN <<>>
    ELSE MatchesOf(matches, pattern) \o PatternsFrom(matches, pattern + 1)

\* ElicitationBot._extract_preferences_with_pattern
_extract_preferences_with_pattern(message) == PatternsFrom(message.matches, 1)

\* What the bot's saves work on: its manager's list, the uuid and time sources
BotState == [list |-> prefs["bot"], nextId |-> nextId, clock |-> clock]

\* The file after the bot's saves: add_preference rewrites it from the list on
\* every accepted save, so it holds the list of the last one
FileAfter(b) == IF b.nextId # nextId THEN _save_preferences(b.list) ELSE file

\* ElicitationBot.save_preference: whether the text passes the validation
Accepted(preference_text) ==
    ~(preference_text = <<>> \/ Len(Strip(preference_text)) < MinPrefLen)

\* ElicitationBot.save_preference: the dict it builds (and returns)
PreferenceDict(b, preference_text, source) ==
    DictValue(b.nextId, preference_text, source, b.clock)

\* ElicitationBot.save_preference: the bot state after the call.  The dict is
\* handed to add_preference as its preference_text; source is left to default
save_preference(b, preference_text, source) ==
    IF ~Accepted(preference_text) THEN b
    ELSE LET l == add_preference(b.list, PreferenceDict(b, preference_text, source),
                                 "manual_chat", b.nextId + 1)
         IN  [list |-> l, nextId |-> b.nextId + 2, clock |-> b.clock + 1]

\* for pref in pattern_preferences: self.save_preference(pref, source=...)
RECURSIVE SaveEach(_, _, _)
SaveEach(b, texts, source) ==
    IF texts = <<>> THEN b
    ELSE SaveEach(save_preference(b, Head(texts), source), Tail(texts), source)

\* ElicitationBot._extract_preference_from_response: the preference, or None.
\* result is what generate_response gave for completion.  An exception, from
\* generate_response or from re.search on None (TypeError), is caught and
\* gives None; so does a text without a PREFERENCE line.
_extract_preference_from_response(completion, result) ==
    IF result.raised \/ completion.kind # "marked" THEN None
    ELSE IF Strip(completion.pref) = NONE THEN None
    ELSE Some(Strip(completion.pref))

\* if llm_preference and llm_preference != "NONE"
Truthy(llm_preference) ==
    llm_preference.some /\ llm_preference.text # <<>> /\ llm_preference.text # NONE

\* detected_preference with the pattern matches asked before the LLM's answer
detected_preference_pattern_first(pattern_preferences, llm_preference) ==
    IF pattern_preferences # <<>> THEN Some(pattern_preferences[1])
    ELSE IF Truthy(llm_preference) THEN llm_preference
    ELSE None

\* The detected_preference of process_message
detected_preference(pattern_preferences, llm_preference) ==
    IF Truthy(llm_preference) THEN llm_preference
    ELSE IF pattern_preferences # <<>> THEN Some(pattern_preferences[1])
    ELSE None

\* The saves of process_message and process_inference_message
SaveDetected(b, pattern_preferences, llm_preference, pattern_source, llm_source) ==
    LET b1 == SaveEach(b, pattern_preferences, pattern_source)
    IN  IF Truthy(llm_preference)
        THEN save_preference(b1, llm_preference.text, llm_source)
        ELSE b1

\* The bot state b stays within the bound on saves
WithinSaves(b) == b.nextId <= FirstId + 2 * MaxSaves

\* The user's history, [] for a user not seen yet
History(user_id) ==
    IF user_id \in DOMAIN conversations THEN conversations[user_id] ELSE <<>>

\* seq[:n], the first n entries
LastN_head(seq, n) == IF Len(seq) <= n THEN seq ELSE SubSeq(seq, 1, n)

\* seq[-n:]
LastN(seq, n) == IF Len(seq) <= n THEN seq ELSE SubSeq(seq, Len(seq) - n + 1, Len(seq))

Entry(role, content) == [role |-> role, content |-> content]

\* ElicitationBot.process_message(user_id, message).  extraction and chat are
\* what the two chat-completions calls do, drawn from extractions and chats;
\* limit bounds the length of the user's history.  An exception of the chat call's
\* generate_response would leave the method after the saves and before the
\* assistant entry is appended.  The except branch around the extraction
\* (lines 238-240) is taken only if save_preference raises, which no step here
\* does; it gives the same detected_preference as the elif/else branches.
process_message_call(user_id, message, extractions, chats, limit) ==
    \E history \in {Append(History(user_id), Entry("user", message.name))},
       pattern_preferences \in {_extract_preferences_with_pattern(message)} :
    \E extraction \in extractions :
    \E llm_preference \in
           {_extract_preference_from_response(extraction, generate_response(extraction))} :
    \E b \in {SaveDetected(BotState, pattern_preferences, llm_preference,
                           "pattern_detected", "llm_detected")},
       messages \in {<<Entry("system", "ELICITATION_SYSTEM_PROMPT")>>
                        \o LastN(history, HistoryWindow)} :
        /\ WithinSaves(b)
        /\ Len(history) + 1 <= limit
        /\ prefs' = [prefs EXCEPT !["bot"] = b.list]
        /\ file' = FileAfter(b)
        /\ nextId' = b.nextId
        /\ clock' = b.clock
        /\ \E chat \in chats :
           \E response \in {generate_response(chat)} :
             /\ conversations' =
                    [u \in DOMAIN conversations \cup {user_id} |->
                        IF u # user_id THEN conversations[u]
                        ELSE IF response.raised THEN history
                        ELSE Append(history, Entry("assistant", response.value))]
             /\ last' = [NoCall EXCEPT
                            !.op = "process_message", !.user = user_id,
                            !.msg = message.name,
                            !.before = Len(prefs["bot"]),
                            !.extract = extraction.kind, !.pref = extraction.pref,
                            !.chat = chat.kind,
                            !.raised = response.raised,
                            !.ret = IF response.raised THEN "None" ELSE "tuple",
                            !.response = response.value,
                            !.detected = detected_preference(pattern_preferences,
                                                             llm_preference),
                            !.request = messages]

\* process_message in a session: any completion, the history within MaxHistory
process_message(user_id, message) ==
    process_message_call(user_id, message, ExtractionCompletions, ChatCompletions,
                         MaxHistory)

\* ElicitationBot.process_inference_message(message)
process_inference_message(message) ==
    \E pattern_preferences \in {_extract_preferences_with_pattern(message)} :
    \E extraction \in ExtractionCompletions :
    \E llm_preference \in
           {_extract_preference_from_response(extraction, generate_response(extraction))} :
    \E b \in {SaveDetected(BotState, pattern_preferences, llm_preference,
                           "inference_pattern", "inference_llm")},
       messages \in {<<Entry("system", "INFERENCE_SYSTEM_PROMPT"),
                       Entry("user", message.name)>>} :
        /\ WithinSaves(b)
        /\ prefs' = [prefs EXCEPT !["bot"] = b.list]
        /\ file' = FileAfter(b)
        /\ nextId' = b.nextId
        /\ clock' = b.clock
        /\ \E chat \in ChatCompletions :
           \E response \in {generate_response(chat)} :
             last' = [NoCall EXCEPT
                         !.op = "process_inference_message", !.msg = message.name,
                         !.before = Len(prefs["bot"]),
                         !.extract = extraction.kind, !.chat = chat.kind,
                         !.raised = response.raised,
                         !.ret = IF response.raised THEN "None" ELSE "str",
                         !.response = response.value,
                         !.request = messages]
        /\ UNCHANGED conversations

(***************************************************************************)
(* app.py                                                                  *)
(***************************************************************************)
\* The user ids process_message is called with (app.py passes "user1")
Users == {"user1"}

\* What may be typed into the sidebar's text area
ManualTexts == {<<>>, <<" ", " ", " ">>, <<"a", "b">>, Tea}

\* The chat input of the "Tell Me About You" tab
ElicitationChat ==
    \E user_id \in Users, message \in Messages : process_message(user_id, message)

\* The chat input of the "Ask Me Anything" tab
InferenceChat == \E message \in Messages : process_inference_message(message)

\* The "Add Preference" button: app.save_preference(manual_pref, "manual_input")
\* when the text area is not empty, st.error otherwise
AddPreferenceButton ==
    \E manual_pref \in ManualTexts :
        \E b \in {IF manual_pref # <<>>
                  THEN save_preference(BotState, manual_pref, "manual_input")
                  ELSE BotState} :
            /\ WithinSaves(b)
            /\ prefs' = [prefs EXCEPT !["bot"] = b.list]
            /\ file' = FileAfter(b)
            /\ nextId' = b.nextId
            /\ clock' = b.clock
            /\ last' = [NoCall EXCEPT !.op = "manual_add", !.text = manual_pref,
                                      !.before = Len(prefs["bot"]),
                                      !.source = "manual_input",
                                      !.ret = IF manual_pref # <<>> /\ Accepted(manual_pref)
                                              THEN "dict" ELSE "None"]
            /\ UNCHANGED conversations

\* A delete button of the sidebar: one per record the bot's manager lists; the
\* click calls delete_preference on the session's manager
DeleteButton ==
    \E i \in 1..Len(prefs["bot"]) : DeletePreference("session", prefs["bot"][i].id)

Next ==
    \/ ElicitationChat
    \/ InferenceChat
    \/ AddPreferenceButton
    \/ DeleteButton

Spec == Init /\ [][Next]_vars

(***************************************************************************)
(* One ElicitationBot in conversation with several users: process_message  *)
(* called turn after turn, long enough for a history to outgrow the window *)
(* of the chat request.                                                    *)
(***************************************************************************)
ChatUsers == {"user1", "user2"}

\* Small talk: a message no pattern matches, an extraction that fails or
\* answers "PREFERENCE: NONE"
ChatMessages == {message \in Messages : message.matches = <<>>}
ChatExtractions == {Completion("raise", <<>>), Completion("marked", NONE)}

\* The entries of the histories of the users
RECURSIVE EntriesOf(_)
EntriesOf(users) ==
    IF users = {} THEN 0
    ELSE LET u == CHOOSE x \in users : TRUE
         IN  Len(History(u)) + EntriesOf(users \ {u})

\* One turn of one user, while fewer than MaxTurns turns were taken
Conversation ==
    \E user_id \in ChatUsers, message \in ChatMessages :
        /\ EntriesOf(ChatUsers) + 2 <= 2 * MaxTurns
        /\ process_message_call(user_id, message, ChatExtractions, ChatCompletions,
                                2 * MaxTurns)

NextChat == Conversation

SpecChat == Init /\ [][NextChat]_vars

(***************************************************************************)
(* Properties.                                                             *)
(***************************************************************************)
Range(l) == {l[i] : i \in 1..Len(l)}

IdsOf(l) == {l[i].id : i \in 1..Len(l)}

IsPrefix(a, b) == Len(a) <= Len(b) /\ SubSeq(b, 1, Len(a)) = a

\* The list's last call changed the list of its manager and rewrote the file
Mutated ==
    \/ last.op = "add_preference"
    \/ last.op = "delete_preference" /\ last.ret = "True"

\* C1: for one PreferenceManager, right after add_preference or after a
\* delete_preference that returned True, the JSON document in the file reads
\* as that manager's list: the same records in the same order.
C1_FileIsList ==
    Mutated =>
        /\ file.exists
        /\ JsonLoads(file.data).ok
        /\ JsonLoads(file.data).list = prefs[last.mgr]

\* C1 witness: a delete returned True and left a list of two or more records
\* in the file, one of them added in this run.
C1_Witness ==
    /\ last.op = "delete_preference" /\ last.ret = "True"
    /\ Len(prefs[last.mgr]) >= 2
    /\ \E r \in Range(prefs[last.mgr]) : r.id >= FirstId
    /\ JsonLoads(file.data).list = prefs[last.mgr]

\* C2: after any sequence of add_preference and delete_preference calls on one
\* manager, a manager constructed on the same path loads the list the first
\* one holds; and one add makes the reloaded list one record longer, the new
\* record last and the earlier ones as they were.
C2_RoundTrip ==
    /\ [](_load_preferences(file) = prefs["bot"])
    /\ [](last.op = "__init__" => prefs[last.mgr] = prefs["bot"])
    /\ [][last'.op = "add_preference" =>
            LET before == _load_preferences(file)
                after == _load_preferences(file')
            IN  /\ Len(after) = Len(before) + 1
                /\ SubSeq(after, 1, Len(before)) = before
                /\ after[Len(after)] =
                       [text |-> StrValue(last'.text), source |-> last'.source,
                        id |-> last'.id]]_vars

\* C2 witness: a manager was constructed after two adds and the delete of the
\* first added record, and holds the one record that is left of the two.
C2_Witness ==
    /\ last.op = "__init__"
    /\ prefs["session"] = prefs["bot"]
    /\ IdsOf(prefs["session"]) \cap (FirstId..(FirstId + MaxIds)) = {FirstId + 1}

\* C7: the list is insertion-ordered.  uuid4 values are drawn from a growing
\* counter here, so "added earlier" is "has the smaller id": of any two records
\* of the list (and of the file) the one with the smaller id comes first.
InAddOrder(l) == \A i, j \in 1..Len(l) : i < j => l[i].id < l[j].id

C7_InsertionOrdered ==
    /\ InAddOrder(prefs["bot"])
    /\ InAddOrder(_load_preferences(file))

\* C7 witness: the middle one of three added records was deleted, the other
\* two are still in the list.
C7_Witness ==
    /\ last.op = "delete_preference" /\ last.ret = "True" /\ last.id = FirstId + 1
    /\ {FirstId, FirstId + 2} \subseteq IdsOf(prefs["bot"])

\* C8: delete_preference(pref_id) returns True exactly when the list held a
\* record with that id; then no record with that id is left and every other
\* record is kept; when it returns False the list is unchanged and the file is
\* not rewritten.
C8_Delete ==
    [][last'.op = "delete_preference" =>
        LET l == prefs[last'.mgr]
            after == prefs'[last'.mgr]
            found == last'.id \in IdsOf(l)
        IN  /\ last'.ret = (IF found THEN "True" ELSE "False")
            /\ found =>
                 /\ last'.id \notin IdsOf(after)
                 /\ Range(after) = {r \in Range(l) : r.id # last'.id}
                 /\ Len(after) = Cardinality({i \in 1..Len(l) : l[i].id # last'.id})
            /\ ~found => after = l /\ file' = file]_vars

\* C8 witness: a delete of an id no record has returned False on a list that
\* holds records, after an earlier delete had removed a record.
C8_Witness ==
    /\ last.op = "delete_preference" /\ last.ret = "False"
    /\ prefs["bot"] # <<>>
    /\ \E i \in FirstId..(nextId - 1) : i \notin IdsOf(prefs["bot"])

\* C6 as stated: the persisted list is append-only, every step leaves the
\* previous file content a prefix of the new one.
C6_AppendOnly == [][IsPrefix(_load_preferences(file), _load_preferences(file'))]_vars

\* C6 as amended: for one PreferenceManager, every step that is not a
\* delete_preference leaves the previous file content a prefix of the new
\* one; a delete_preference that returns True leaves a shorter list in the file.
C6_AppendOnlyButDelete ==
    [][LET before == _load_preferences(file)
           after == _load_preferences(file')
       IN  /\ last'.op # "delete_preference" => IsPrefix(before, after)
           /\ last'.op = "delete_preference" /\ last'.ret = "True" =>
                  Len(after) < Len(before)]_vars

\* C6 witness: an add after a delete: the file holds the new record last, and
\* a record added earlier is gone from it.
C6_Witness ==
    /\ last.op = "add_preference"
    /\ Len(_load_preferences(file)) >= 2
    /\ \E i \in FirstId..(last.id - 1) : i \notin IdsOf(_load_preferences(file))

(***************************************************************************)
(* Properties of the session (Spec).                                       *)
(***************************************************************************)
DistinctIds(l) == \A i, j \in 1..Len(l) : i # j => l[i].id # l[j].id

\* The records stored since start-up
StoredNow(l) == {r \in Range(l) : r.id >= FirstId}

\* C3: the records of each manager's list, and those of the file, have pairwise
\* distinct ids, whatever chat saves, manual adds and deletes were made.
C3_UniqueIds ==
    /\ \A m \in Managers : DistinctIds(prefs[m])
    /\ DistinctIds(_load_preferences(file))

\* C3 witness: a sidebar delete succeeded in a session in which a chat message
\* and the sidebar form each saved a preference.
C3_Witness ==
    /\ last.op = "delete_preference" /\ last.ret = "True"
    /\ \E r \in Range(prefs["bot"]) : r.text.source = "manual_input"
    /\ \E r \in Range(prefs["bot"]) : r.text.source \in {"pattern_detected", "llm_detected"}

\* C4: the text of every record stored through the bot is a string, the
\* preference string itself.
C4_TextIsString ==
    /\ \A r \in StoredNow(prefs["bot"]) : r.text.kind = "str"
    /\ \A r \in StoredNow(_load_preferences(file)) : r.text.kind = "str"
    /\ last.op = "manual_add" /\ last.ret = "dict" =>
           prefs["bot"][Len(prefs["bot"])].text = StrValue(last.text)

HeuristicSources ==
    {"pattern_detected", "llm_detected", "inference_pattern", "inference_llm",
     "manual_input"}

\* C5: the source of every record stored through the bot names the heuristic
\* that produced it; a record of the sidebar form carries manual_input.
C5_SourceIsHeuristic ==
    /\ \A r \in StoredNow(prefs["bot"]) : r.source \in HeuristicSources
    /\ \A r \in StoredNow(_load_preferences(file)) : r.source \in HeuristicSources
    /\ last.op = "manual_add" /\ last.ret = "dict" =>
           prefs["bot"][Len(prefs["bot"])].source = "manual_input"

MessageNamed(name) == CHOOSE message \in Messages : message.name = name

\* The last call was a chat call during which a chat-completions call failed
LlmFailed(call) ==
    /\ call.op \in {"process_message", "process_inference_message"}
    /\ call.extract = "raise" \/ call.chat = "raise"

PatternSource(call) ==
    IF call.op = "process_message" THEN "pattern_detected" ELSE "inference_pattern"

\* The records the last call appended to the bot's list
Appended == SubSeq(prefs["bot"], last.before + 1, Len(prefs["bot"]))

\* The last call returned a response and its saves begin with one record for
\* each of the texts, in their order, which the file holds too
RespondedAndSaved(texts) ==
    /\ ~last.raised
    /\ last.response # ""
    /\ Len(Appended) >= Len(texts)
    /\ \A i \in 1..Len(texts) :
           /\ Appended[i].text.text = texts[i]
           /\ Appended[i].text.source = PatternSource(last)
    /\ texts # <<>> => _load_preferences(file) = prefs["bot"]

\* C9 as stated: when a chat-completions call fails during process_message or
\* process_inference_message, the call returns a response without raising and
\* every preference the patterns detected in the message is saved.
C9_LogAndContinue ==
    LlmFailed(last) =>
        RespondedAndSaved(_extract_preferences_with_pattern(MessageNamed(last.msg)))

\* C9 as amended: ... and every preference the patterns detected in the
\* message that has at least 3 characters after strip() is saved.
C9_LogAndContinueValid ==
    LlmFailed(last) =>
        RespondedAndSaved(
            SelectSeq(_extract_preferences_with_pattern(MessageNamed(last.msg)),
                      LAMBDA t : Len(Strip(t)) >= 3))

\* C9 witness: both chat-completions calls of a process_message failed, an
\* error string came back, and the two pattern matches of the message are the
\* last two records of the bot's list.
C9_Witness ==
    /\ last.op = "process_message" /\ last.extract = "raise" /\ last.chat = "raise"
    /\ last.msg = "hate monday, love hiking"
    /\ ~last.raised
    /\ Len(prefs["bot"]) >= 2
    /\ prefs["bot"][Len(prefs["bot"]) - 1].text.text = Hiking
    /\ prefs["bot"][Len(prefs["bot"])].text.text = Monday

\* C10: every non-empty text submitted through the "Add Preference" form is
\* saved: the stored list grows by one.
C10_ManualAlwaysSaved ==
    last.op = "manual_add" /\ last.text # <<>> =>
        /\ last.ret = "dict"
        /\ Len(prefs["bot"]) = last.before + 1
        /\ Len(_load_preferences(file)) = last.before + 1

\* The "Add Preference" form called ElicitationBot.save_preference with the
\* text of the call
SavePreferenceCalled(call) == call.op = "manual_add" /\ call.text # <<>>

\* The frame of save_preference between two states: a refused text returns
\* None and leaves the bot's list and the file as they were; an accepted one
\* appends one record to the list, which the file then holds too
SavePreferenceFrame ==
    IF Accepted(last'.text)
    THEN /\ last'.ret = "dict"
         /\ Len(prefs'["bot"]) = Len(prefs["bot"]) + 1
         /\ IsPrefix(prefs["bot"], prefs'["bot"])
         /\ _load_preferences(file') = prefs'["bot"]
    ELSE /\ last'.ret = "None"
         /\ prefs' = prefs
         /\ file' = file

\* C11: ElicitationBot.save_preference returns None and leaves the list and
\* the file unchanged when the text is empty or has fewer than 3 characters
\* after strip(); otherwise it adds exactly one record and returns that
\* record: the dict it returns has the id, the text and the source of the
\* record added.
C11_SavePreference ==
    [][SavePreferenceCalled(last') =>
          /\ SavePreferenceFrame
          /\ Accepted(last'.text) =>
                 LET returned == PreferenceDict(BotState, last'.text, last'.source)
                     added == prefs'["bot"][Len(prefs'["bot"])]
                 IN  /\ added.id = returned.id
                     /\ added.text = StrValue(returned.text)
                     /\ added.source = returned.source]_vars

(***************************************************************************)
(* Start-up on a bad store.                                                *)
(***************************************************************************)
\* The bad stores: the file is missing, empty, holds only '{}', or holds a
\* text that is not a JSON document
BadStores ==
    { [exists |-> FALSE, data |-> <<>>],
      [exists |-> TRUE, data |-> <<>>],
      [exists |-> TRUE, data |-> <<P("{"), P("}")>>],
      [exists |-> TRUE, data |-> <<P("["), P("{")>>] }

\* C12: on a bad store a new PreferenceManager starts with an empty list and
\* its construction raises no error: this holds of the managers made at
\* start-up and of every manager constructed later while the file is bad.
C12_LoadNeverFails ==
    file \in BadStores =>
        /\ last.op = "start" => \A m \in Managers : prefs[m] = <<>>
        /\ last.op = "__init__" => ~last.raised /\ prefs[last.mgr] = <<>>

\* C12 witness: a manager was constructed while the file held the truncated
\* document, and holds the empty list.
C12_Witness ==
    /\ last.op = "__init__" /\ ~last.raised
    /\ file = [exists |-> TRUE, data |-> <<P("["), P("{")>>]
    /\ prefs["session"] = <<>>

(***************************************************************************)
(* The preference process_message returns.                                 *)
(***************************************************************************)
\* The extraction call of the last process_message produced a preference: its
\* reply has a PREFERENCE line whose text is not NONE
LlmProduced(call) ==
    /\ call.extract = "marked"
    /\ Strip(call.pref) # <<>>
    /\ Strip(call.pref) # NONE

\* The matches of a message whose captured group is longer than 5 characters
Kept(matches) == {i \in 1..Len(matches) : Len(matches[i].group1) > MinGroupLen}

\* Of the kept matches the one of the earliest pattern of preference_patterns,
\* and among those of one pattern the earliest in the message
FirstKept(matches) ==
    CHOOSE i \in Kept(matches) :
        \A j \in Kept(matches) :
            \/ matches[i].pattern < matches[j].pattern
            \/ matches[i].pattern = matches[j].pattern /\ i <= j

\* C13 as stated: the second value process_message returns is the LLM-extracted
\* preference when the extraction produced one (not NONE); otherwise the first
\* regex match of the message when it has at least one; otherwise None.
C13_DetectedFirstMatch ==
    last.op = "process_message" =>
        LET matches == MessageNamed(last.msg).matches
        IN  last.detected =
                IF LlmProduced(last) THEN Some(Strip(last.pref))
                ELSE IF matches # <<>> THEN Some(Strip(matches[1].group1))
                ELSE None

\* C13 as amended: ... otherwise, of the regex matches whose captured group is
\* longer than 5 characters, the stripped group of the first one in the order
\* of the pattern list (then of position in the message) when there is at
\* least one; otherwise None.
C13_DetectedByPatternOrder ==
    last.op = "process_message" =>
        LET matches == MessageNamed(last.msg).matches
        IN  last.detected =
                IF LlmProduced(last) THEN Some(Strip(last.pref))
                ELSE IF Kept(matches) # {}
                     THEN Some(Strip(matches[FirstKept(matches)].group1))
                ELSE None

\* C13 witness: the extraction answered "PREFERENCE: NONE" for "I hate monday.
\* I love hiking." and process_message returned "hiking", the match of the
\* first pattern, which stands second in the message.
C13_Witness ==
    /\ last.op = "process_message" /\ last.msg = "hate monday, love hiking"
    /\ last.extract = "marked" /\ last.pref = NONE
    /\ last.detected = Some(Hiking)

(***************************************************************************)
(* Properties of the conversation (SpecChat).                              *)
(***************************************************************************)
\* h is made of pairs: a user entry, then an assistant entry
Alternates(h) ==
    /\ Len(h) % 2 = 0
    /\ \A i \in 1..Len(h) : h[i].role = (IF i % 2 = 1 THEN "user" ELSE "assistant")

\* The chat request of the last process_message: the system prompt, then the
\* last entries of the user's history as it was when the request was made (the
\* history of now without the assistant entry), all of them or 10
RequestIsWindow ==
    LET now == conversations[last.user]
        h == SubSeq(now, 1, Len(now) - 1)
        req == last.request
        k == Len(req) - 1
    IN  /\ req # <<>>
        /\ req[1] = Entry("system", "ELICITATION_SYSTEM_PROMPT")
        /\ k <= HistoryWindow
        /\ k = Len(h) \/ (k = HistoryWindow /\ Len(h) > HistoryWindow)
        /\ \A i \in 1..k : req[1 + i] = h[Len(h) - k + i]
        /\ req[Len(req)] = Entry("user", last.msg)

\* C14: each process_message call appends exactly two entries to its user's
\* history, the user message then the assistant response, and leaves the other
\* users' histories alone; so every history alternates user/assistant; and the
\* chat request holds the system prompt followed by at most the last 10
\* entries of the history, the last of which is the current user message.
C14_History ==
    /\ [][last'.op = "process_message" =>
            /\ conversations'[last'.user] =
                   History(last'.user) \o <<Entry("user", last'.msg),
                                            Entry("assistant", last'.response)>>
            /\ \A u \in DOMAIN conversations \ {last'.user} :
                   conversations'[u] = conversations[u]]_vars
    /\ [](\A u \in DOMAIN conversations : Alternates(conversations[u]))
    /\ [](last.op = "process_message" => RequestIsWindow)

\* C14 witness: the sixth turn of user1, in a conversation in which user2 had a
\* turn too: the history has 12 entries, the request the system prompt and 10
\* of them, beginning with the assistant's first answer.
C14_Witness ==
    /\ last.op = "process_message" /\ last.user = "user1"
    /\ "user2" \in DOMAIN conversations
    /\ Len(conversations["user2"]) = 2
    /\ Len(conversations["user1"]) = 12
    /\ Len(last.request) = HistoryWindow + 1
    /\ last.request[2] = conversations["user1"][2]
    /\ last.request[2].role = "assistant"

(***************************************************************************)
(* The file and the sidebar.                                               *)
(***************************************************************************)
\* The records the sidebar displays: st.session_state.bot.get_preferences()
Sidebar == prefs["bot"]

\* C15: within one session, after every completed operation (chat message,
\* inference message, manual add, sidebar delete) the file holds exactly the
\* records the sidebar displays, in their order.
C15_FileIsSidebar == last.op # "start" => _load_preferences(file) = Sidebar

====
